---- MODULE Spec2Model ----
(***************************************************************************)
(* Model of the resume-request worker (src/backend/src/worker.js): the     *)
(* signed decision-token codec, the request store and the intake and       *)
(* decision handlers.                                                      *)
(*                                                                         *)
(* JavaScript strings and byte arrays are sequences of character codes /   *)
(* byte values.  A thrown exception is the result Throw; a returned value  *)
(* v is Return(v).                                                         *)
(***************************************************************************)
EXTENDS Integers, Sequences, FiniteSets, TLC

(***************************************************************************)
(* JavaScript values                                                       *)
(***************************************************************************)
Undef == [t |-> "undefined", s |-> <<>>, n |-> 0]
Null == [t |-> "null", s |-> <<>>, n |-> 0]
Str(s) == [t |-> "string", s |-> s, n |-> 0]
Num(n) == [t |-> "number", s |-> <<>>, n |-> n]
Obj(id, action, exp) == [t |-> "object", id |-> id, action |-> action, exp |-> exp]

Throw == [throw |-> TRUE, val |-> Undef]
Return(v) == [throw |-> FALSE, val |-> v]

\* !v is FALSE for these values
Truthy(v) ==
    CASE v.t = "undefined" -> FALSE
      [] v.t = "null" -> FALSE
      [] v.t = "string" -> v.s # <<>>
      [] v.t = "number" -> v.n # 0
      [] OTHER -> TRUE

\* property read payload.k of a parsed value; a primitive has no own id/action/exp
Prop(v, k) ==
    IF v.t = "object"
    THEN CASE k = "id" -> v.id [] k = "action" -> v.action [] k = "exp" -> v.exp
    ELSE Undef

IsDigit(c) == c >= 48 /\ c <= 57

RECURSIVE DigitsValue(_)
DigitsValue(ds) ==
    IF ds = <<>> THEN 0
    ELSE 10 * DigitsValue(SubSeq(ds, 1, Len(ds) - 1)) + (ds[Len(ds)] - 48)

RECURSIVE Digits(_)
Digits(n) == IF n < 10 THEN <<48 + n>> ELSE Digits(n \div 10) \o <<48 + (n % 10)>>

\* ToNumber, as applied by payload.exp * 1000; nan marks NaN
ToNumber(v) ==
    CASE v.t = "number" -> [nan |-> FALSE, n |-> v.n]
      [] v.t = "null" -> [nan |-> FALSE, n |-> 0]
      [] v.t = "string" ->
            IF \A i \in 1..Len(v.s) : IsDigit(v.s[i])
            THEN [nan |-> FALSE, n |-> DigitsValue(v.s)]
            ELSE [nan |-> TRUE, n |-> 0]
      [] OTHER -> [nan |-> TRUE, n |-> 0]

(***************************************************************************)
(* Text                                                                    *)
(***************************************************************************)
DOT == 46
QUOTE == 34
APPROVE == <<97,112,112,114,111,118,101>>
DENY == <<100,101,110,121>>
PENDING == "pending"
APPROVED == "approved"
DENIED == "denied"

\* first position >= from holding character c, or 0
IndexOf(s, c, from) ==
    LET hits == {i \in from..Len(s) : s[i] = c} IN
    IF hits = {} THEN 0 ELSE CHOOSE i \in hits : \A j \in hits : i <= j

\* String.prototype.split on a one-character separator
RECURSIVE Split(_, _)
Split(s, c) ==
    LET i == IndexOf(s, c, 1) IN
    IF i = 0 THEN <<s>>
    ELSE <<SubSeq(s, 1, i - 1)>> \o Split(SubSeq(s, i + 1, Len(s)), c)

\* toUtf8 / TextDecoder.decode on text whose characters are all below 128
\* map every character to one byte of the same value; a byte of 128 or more
\* outside a well-formed sequence decodes to U+FFFD.
toUtf8(s) == s
TextDecode(bytes) == [i \in 1..Len(bytes) |-> IF bytes[i] < 128 THEN bytes[i] ELSE 65533]

(***************************************************************************)
(* JSON.stringify / JSON.parse on claims objects                           *)
(***************************************************************************)
StringifyValue(v) ==
    CASE v.t = "string" -> <<QUOTE>> \o v.s \o <<QUOTE>>
      [] v.t = "number" -> Digits(v.n)
      [] OTHER -> <<110,117,108,108>>

Member(key, v) == <<QUOTE>> \o key \o <<QUOTE, 58>> \o StringifyValue(v)

KEY_ID == <<105,100>>
KEY_ACTION == <<97,99,116,105,111,110>>
KEY_EXP == <<101,120,112>>

RECURSIVE JoinComma(_)
JoinComma(ms) ==
    IF ms = <<>> THEN <<>>
    ELSE IF Len(ms) = 1 THEN ms[1]
    ELSE ms[1] \o <<44>> \o JoinComma(Tail(ms))

\* JSON.stringify: own properties in insertion order, undefined ones left out
JSONstringify(v) ==
    IF v.t = "object"
    THEN LET ms == (IF v.id.t = "undefined" THEN <<>> ELSE <<Member(KEY_ID, v.id)>>)
                   \o (IF v.action.t = "undefined" THEN <<>> ELSE <<Member(KEY_ACTION, v.action)>>)
                   \o (IF v.exp.t = "undefined" THEN <<>> ELSE <<Member(KEY_EXP, v.exp)>>)
         IN <<123>> \o JoinComma(ms) \o <<125>>
    ELSE StringifyValue(v)

RECURSIVE DigitRunEnd(_, _)
DigitRunEnd(s, i) == IF i <= Len(s) /\ IsDigit(s[i]) THEN DigitRunEnd(s, i + 1) ELSE i

\* one JSON value starting at position i: a string without escapes, an
\* unsigned integer or null; next is the position after it
ParseValue(s, i) ==
    IF i > Len(s) THEN [throw |-> TRUE, val |-> Undef, next |-> i]
    ELSE IF s[i] = QUOTE
    THEN LET e == IndexOf(s, QUOTE, i + 1) IN
         IF e = 0 \/ \E j \in (i + 1)..(e - 1) : s[j] = 92 \/ s[j] < 32
         THEN [throw |-> TRUE, val |-> Undef, next |-> i]
         ELSE [throw |-> FALSE, val |-> Str(SubSeq(s, i + 1, e - 1)), next |-> e + 1]
    ELSE IF IsDigit(s[i])
    THEN LET e == DigitRunEnd(s, i) IN
         IF s[i] = 48 /\ e > i + 1
         THEN [throw |-> TRUE, val |-> Undef, next |-> i]
         ELSE [throw |-> FALSE, val |-> Num(DigitsValue(SubSeq(s, i, e - 1))), next |-> e]
    ELSE IF i + 3 <= Len(s) /\ SubSeq(s, i, i + 3) = <<110,117,108,108>>
    THEN [throw |-> FALSE, val |-> Null, next |-> i + 4]
    ELSE [throw |-> TRUE, val |-> Undef, next |-> i]

SetKey(obj, key, v) ==
    CASE key = KEY_ID -> [obj EXCEPT !.id = v]
      [] key = KEY_ACTION -> [obj EXCEPT !.action = v]
      [] key = KEY_EXP -> [obj EXCEPT !.exp = v]
      [] OTHER -> obj

RECURSIVE ParseMembers(_, _, _)
ParseMembers(s, i, obj) ==
    IF i > Len(s) \/ s[i] # QUOTE THEN Throw
    ELSE LET kEnd == IndexOf(s, QUOTE, i + 1) IN
         IF kEnd = 0 \/ kEnd + 1 > Len(s) \/ s[kEnd + 1] # 58 THEN Throw
         ELSE LET v == ParseValue(s, kEnd + 2)
                  obj2 == SetKey(obj, SubSeq(s, i + 1, kEnd - 1), v.val)
              IN IF v.throw \/ v.next > Len(s) THEN Throw
                 ELSE IF s[v.next] = 125
                 THEN (IF v.next = Len(s) THEN Return(obj2) ELSE Throw)
                 ELSE IF s[v.next] = 44 THEN ParseMembers(s, v.next + 1, obj2)
                 ELSE Throw

\* JSON.parse on the texts of this model: an object of id/action/exp members
\* or a primitive; anything else is a SyntaxError
JSONparse(s) ==
    IF s = <<>> THEN Throw
    ELSE IF s[1] = 123
    THEN (IF s = <<123, 125>> THEN Return(Obj(Undef, Undef, Undef))
          ELSE ParseMembers(s, 2, Obj(Undef, Undef, Undef)))
    ELSE LET v == ParseValue(s, 1) IN
         IF v.throw \/ v.next # Len(s) + 1 THEN Throw ELSE Return(v.val)

(***************************************************************************)
(* base64 / base64url                                                      *)
(***************************************************************************)
B64Char(i) ==
    CASE i < 26 -> 65 + i
      [] i >= 26 /\ i < 52 -> 97 + (i - 26)
      [] i >= 52 /\ i < 62 -> 48 + (i - 52)
      [] i = 62 -> 43
      [] OTHER -> 47

\* index of a character in the base64 alphabet, or -1
B64Index(c) ==
    CASE c >= 65 /\ c <= 90 -> c - 65
      [] c >= 97 /\ c <= 122 -> c - 97 + 26
      [] c >= 48 /\ c <= 57 -> c - 48 + 52
      [] c = 43 -> 62
      [] c = 47 -> 63
      [] OTHER -> -1

\* btoa: every 3 bytes give 4 characters; a last group of 1 or 2 bytes is
\* filled with zero bits and closed with '='
btoa(b) ==
    LET n == Len(b)
        byte(i) == IF i <= n THEN b[i] ELSE 0
        char(j) ==
            LET g == 3 * ((j - 1) \div 4)
                p == (j - 1) % 4
            IN CASE p = 0 -> B64Char(byte(g + 1) \div 4)
                 [] p = 1 -> B64Char((byte(g + 1) % 4) * 16 + byte(g + 2) \div 16)
                 [] p = 2 -> IF g + 2 > n THEN 61
                             ELSE B64Char((byte(g + 2) % 16) * 4 + byte(g + 3) \div 64)
                 [] OTHER -> IF g + 3 > n THEN 61 ELSE B64Char(byte(g + 3) % 64)
    IN [j \in 1..(4 * ((n + 2) \div 3)) |-> char(j)]

\* the bytes of a sequence of 6-bit values; bits left over at the end are dropped
DecodeQuads(ix) ==
    LET n == Len(ix)
        six(i) == IF i <= n THEN ix[i] ELSE 0
        byte(k) ==
            LET g == 4 * ((k - 1) \div 3)
                p == (k - 1) % 3
            IN CASE p = 0 -> six(g + 1) * 4 + six(g + 2) \div 16
                 [] p = 1 -> (six(g + 2) % 16) * 16 + six(g + 3) \div 4
                 [] OTHER -> (six(g + 3) % 4) * 64 + six(g + 4)
    IN [k \in 1..((n * 6) \div 8) |-> byte(k)]

\* atob (forgiving-base64 decode) on text without whitespace: one or two
\* trailing '=' are dropped when the length is a multiple of 4; a length of
\* 1 mod 4 or a character outside the alphabet is an InvalidCharacterError
atob(s) ==
    LET n == Len(s)
        data == IF n > 0 /\ n % 4 = 0 /\ s[n] = 61
                THEN (IF s[n - 1] = 61 THEN SubSeq(s, 1, n - 2) ELSE SubSeq(s, 1, n - 1))
                ELSE s
    IN IF Len(data) % 4 = 1 \/ \E i \in 1..Len(data) : B64Index(data[i]) = -1
       THEN Throw
       ELSE Return(DecodeQuads([i \in 1..Len(data) |-> B64Index(data[i])]))

RECURSIVE StripPad(_)
StripPad(s) == IF s # <<>> /\ s[Len(s)] = 61 THEN StripPad(SubSeq(s, 1, Len(s) - 1)) ELSE s

base64UrlEncode(bytes) ==
    LET b == btoa(bytes)
        r == [i \in 1..Len(b) |-> IF b[i] = 43 THEN 45 ELSE IF b[i] = 47 THEN 95 ELSE b[i]]
    IN StripPad(r)

base64UrlDecode(value) ==
    LET r == [i \in 1..Len(value) |->
                 IF value[i] = 45 THEN 43 ELSE IF value[i] = 95 THEN 47 ELSE value[i]]
        k == (Len(value) + 3) % 4
        padded == r \o SubSeq(<<61, 61, 61>>, k + 1, 3)
    IN atob(padded)

(***************************************************************************)
(* HMAC and token codec                                                    *)
(***************************************************************************)
RECURSIVE BitXor(_, _)
BitXor(a, b) ==
    IF a = 0 /\ b = 0 THEN 0
    ELSE (((a % 2) + (b % 2)) % 2) + 2 * BitXor(a \div 2, b \div 2)

RECURSIVE BitOr(_, _)
BitOr(a, b) ==
    IF a = 0 /\ b = 0 THEN 0
    ELSE (IF a % 2 = 1 \/ b % 2 = 1 THEN 1 ELSE 0) + 2 * BitOr(a \div 2, b \div 2)

\* length of an HMAC-SHA-256 tag in bytes
TagLen == 32
DigestModulus == 32749

\* w^k modulo DigestModulus
RECURSIVE PowMod(_, _)
PowMod(w, e) ==
    IF e = 0 THEN 1
    ELSE LET half == PowMod(w, e \div 2)
             sq == (half * half) % DigestModulus
         IN IF e % 2 = 0 THEN sq ELSE (sq * w) % DigestModulus

RECURSIVE SumMod(_, _, _)
SumMod(f, lo, hi) ==
    IF lo > hi THEN 0
    ELSE IF lo = hi THEN f[lo]
    ELSE LET mid == (lo + hi) \div 2
         IN (SumMod(f, lo, mid) + SumMod(f, mid + 1, hi)) % DigestModulus

\* a positional checksum of the bytes
Absorb(bytes) ==
    SumMod([i \in 1..Len(bytes) |-> ((bytes[i] + 1) * PowMod(131, i)) % DigestModulus],
           1, Len(bytes))

Squeeze(h, len) == [i \in 1..len |-> ((h \div (1 + (i % 3) * 15)) + i * (h % 251)) % 256]

\* HMAC-SHA-256 as a deterministic keyed digest of TagLen bytes.  The digest
\* used here is free of collisions on the messages and secrets of this model.
hmacSha256(messageBytes, secretBytes) ==
    Squeeze((Absorb(secretBytes) * 977 + Absorb(messageBytes)) % DigestModulus, TagLen)

\* out |= a[i] ^ b[i] over the positions lo..hi
RECURSIVE OrXor(_, _, _, _)
OrXor(a, b, lo, hi) ==
    IF lo > hi THEN 0
    ELSE IF lo = hi THEN BitXor(a[lo], b[lo])
    ELSE LET mid == (lo + hi) \div 2
         IN BitOr(OrXor(a, b, lo, mid), OrXor(a, b, mid + 1, hi))

\* a comparison that stops at the length check
LengthOnlyEqual(a, b) == Len(a) = Len(b)

timingSafeEqual(a, b) ==
    IF Len(a) # Len(b) THEN FALSE
    ELSE OrXor(a, b, 1, Len(a)) = 0

\* a signer that tags the encoded segment instead of the claims bytes
SignEncodedSegment(claims, key) ==
    LET payloadBytes == toUtf8(JSONstringify(claims))
        sigBytes == hmacSha256(base64UrlEncode(payloadBytes), toUtf8(key))
    IN base64UrlEncode(payloadBytes) \o <<DOT>> \o base64UrlEncode(sigBytes)

signToken(claims, key) ==
    LET payloadBytes == toUtf8(JSONstringify(claims))
        sigBytes == hmacSha256(payloadBytes, toUtf8(key))
    IN base64UrlEncode(payloadBytes) \o <<DOT>> \o base64UrlEncode(sigBytes)

\* Return(Null) is the value null; Throw is an exception out of atob or
\* JSON.parse
verifyToken(token, key) ==
    LET parts == Split(token, DOT) IN
    IF Len(parts) # 2 THEN Return(Null)
    ELSE LET payloadBytes == base64UrlDecode(parts[1])
             providedSig == base64UrlDecode(parts[2])
         IN IF payloadBytes.throw \/ providedSig.throw THEN Throw
            ELSE IF ~timingSafeEqual(providedSig.val, hmacSha256(payloadBytes.val, toUtf8(key)))
            THEN Return(Null)
            ELSE JSONparse(TextDecode(payloadBytes.val))

(***************************************************************************)
(* Bounds and program constants                                            *)
(***************************************************************************)
\* number of clock steps a behaviour may take
MaxTicks == 2
\* number of store writes that may fail in one behaviour
MaxPutFailures == 1
\* the per-request count of approval emails saturates here
MaxSends == 3

\* hours of validity given to expiresInHours by the intake handler
TOKEN_HOURS == 168
\* expirationTtl of every store write, in seconds
RECORD_TTL == 60 * 60 * 24 * 30
\* one token lifetime, in seconds
TokenLife == TOKEN_HOURS * 60 * 60
\* the clock advances by one token lifetime, then by what remains of the
\* retention window of a record, and so on in turn
TickStep(n) == IF n % 2 = 0 THEN TokenLife ELSE RECORD_TTL - TokenLife
\* the clock after k steps
RECURSIVE ClockAt(_)
ClockAt(n) == IF n = 0 THEN 0 ELSE ClockAt(n - 1) + TickStep(n - 1)
\* an expiry instant later than every clock value of the model
FarExp == (MaxTicks + 1) * RECORD_TTL

\* values of env.APPROVAL_SIGNING_SECRET
Secrets == {<<115,49>>, <<115,50>>}
\* values crypto.randomUUID() may return
Ids == {<<97>>, <<98>>}
\* an id that no intake ever generates
StrangerId == <<122>>
FOO == <<102,111,111>>

(***************************************************************************)
(* Intake validation                                                       *)
(***************************************************************************)
IsSpace(c) == c \in {9, 10, 11, 12, 13, 32}

RECURSIVE TrimStart(_)
TrimStart(s) == IF s # <<>> /\ IsSpace(s[1]) THEN TrimStart(Tail(s)) ELSE s

RECURSIVE TrimEnd(_)
TrimEnd(s) == IF s # <<>> /\ IsSpace(s[Len(s)]) THEN TrimEnd(SubSeq(s, 1, Len(s) - 1)) ELSE s

\* String(value || "").trim() for a string or missing field
clean(value) == IF Truthy(value) THEN TrimEnd(TrimStart(value.s)) ELSE <<>>

\* /^[^\s@]+@[^\s@]+\.[^\s@]+$/
isEmail(value) ==
    /\ \A i \in 1..Len(value) : ~IsSpace(value[i])
    /\ Cardinality({i \in 1..Len(value) : value[i] = 64}) = 1
    /\ LET at == IndexOf(value, 64, 1) IN
       /\ at > 1
       /\ \E j \in (at + 2)..(Len(value) - 1) : value[j] = 46

Body(name, email, company, reason) ==
    [name |-> name, email |-> email, company |-> company, reason |-> reason]

\* await request.json() gives null for the body text "null" and rejects for
\* a body that is not JSON
NoJson == [t |-> "unparsable", s |-> <<>>, n |-> 0]
BrokenBodies == {Null, NoJson}

\* request bodies of the model
Bodies ==
    LET jo == Str(<<74,111>>)
        mail == Str(<<106,111,64,120,46,99,111,109>>)
        acme == Str(<<65,99,109,101>>)
        hiring == Str(<<104,105,114,105,110,103>>)
    IN { Body(jo, mail, acme, hiring),
         Body(Str(<<32,74,111,32>>), mail, acme, hiring),
         Body(Undef, mail, acme, hiring),
         Body(jo, mail, acme, Str(<<32,32>>)),
         Body(jo, Str(<<106,111,64,120>>), acme, hiring),
         Body(jo, Str(<<106,111,64,64,120,46,99,111,109>>), acme, hiring) }
       \cup BrokenBodies

(***************************************************************************)
(* Tokens of the model                                                     *)
(***************************************************************************)
\* what signToken does to bytes that are already serialised
SealBytes(bytes, key) ==
    base64UrlEncode(bytes) \o <<DOT>> \o base64UrlEncode(hmacSha256(bytes, toUtf8(key)))

\* an expiry helper that counts the hours as minutes
ExpiresInMinutes(hours, t) == t + hours * 60

\* Math.floor(Date.now() / 1000) + hours * 60 * 60
expiresInHours(hours, t) == t + hours * 60 * 60

\* claims the intake handler can mint
MintClaims ==
    { Obj(Str(i), Str(a), Num(expiresInHours(TOKEN_HOURS, t))) :
        i \in Ids, a \in {APPROVE, DENY}, t \in {ClockAt(k) : k \in 0..MaxTicks} }

\* further claims a holder of the secret can sign
OddClaims ==
    { Obj(Str(<<97>>), Str(APPROVE), Undef),
      Obj(Str(<<97>>), Str(APPROVE), Str(<<120>>)),
      Obj(Str(<<97>>), Str(FOO), Num(FarExp)),
      Obj(Undef, Str(APPROVE), Num(FarExp)),
      Obj(Str(<<97>>), Undef, Num(FarExp)) }

LongClaims ==
    { Obj(Str(<<97>>), Str(APPROVE), Num(FarExp)),
      Obj(Str(<<97>>), Str(DENY), Num(FarExp)),
      Obj(Str(StrangerId), Str(APPROVE), Num(FarExp)),
      Obj(Str(StrangerId), Str(DENY), Num(TokenLife)) }

ClaimsDomain == MintClaims \cup OddClaims \cup LongClaims

SignTable == [c \in ClaimsDomain, sec \in Secrets |-> signToken(c, sec)]

\* the secret that is not sec
OtherSecret(sec) == CHOOSE o \in Secrets : o # sec

LongApprove == Obj(Str(<<97>>), Str(APPROVE), Num(FarExp))
LongDeny == Obj(Str(<<97>>), Str(DENY), Num(FarExp))

\* token strings that fail before the tag comparison
BrokenTokens(sec) ==
    LET parts == Split(SignTable[LongApprove, sec], DOT)
    IN { <<65,65,65,65>>,
         <<65,46,66,46,67>>,
         <<33,33>> \o <<DOT>> \o parts[2],
         parts[1] \o <<DOT>> \o parts[2] \o <<65,65>> }

\* claims segment of the approve token with the tag of the deny token
TamperedToken(sec) ==
    Split(SignTable[LongApprove, sec], DOT)[1] \o <<DOT>> \o Split(SignTable[LongDeny, sec], DOT)[2]

\* correctly tagged bytes that are not claims: "{" and "null"
RawTokens(sec) == { SealBytes(<<123>>, sec), SealBytes(<<110,117,108,108>>, sec) }

\* token strings a client may present without having been sent them, when
\* the worker's secret is sec
CraftedTokens(sec) ==
    {<<>>} \cup BrokenTokens(sec) \cup RawTokens(sec)
    \cup {TamperedToken(sec), SignTable[LongApprove, OtherSecret(sec)]}
    \cup { SignTable[c, sec] : c \in OddClaims \cup LongClaims }

AllTokens ==
    UNION { CraftedTokens(sec) : sec \in Secrets }
    \cup { SignTable[c, sec] : c \in MintClaims, sec \in Secrets }

CraftedTable == [sec \in Secrets |-> CraftedTokens(sec)]

\* the crafted token strings that are absent, malformed, forged or tampered
\* with, or whose correctly tagged bytes are not claims
UndecodableTable ==
    [sec \in Secrets |->
        {<<>>} \cup BrokenTokens(sec) \cup RawTokens(sec)
        \cup {TamperedToken(sec), SignTable[LongApprove, OtherSecret(sec)]}]

\* correctly signed claims that lack exp, carry an exp that is no number or
\* an action that is neither approve nor deny
IllFormedClaims ==
    { Obj(Str(<<97>>), Str(APPROVE), Undef),
      Obj(Str(<<97>>), Str(APPROVE), Str(<<120>>)),
      Obj(Str(<<97>>), Str(FOO), Num(FarExp)) }

IllFormedTable == [sec \in Secrets |-> { SignTable[c, sec] : c \in IllFormedClaims }]

\* correctly signed tokens that outlive the links of the notification email
LongTable == [sec \in Secrets |-> { SignTable[c, sec] : c \in LongClaims }]

VerifyTable == [tok \in AllTokens, sec \in Secrets |-> verifyToken(tok, sec)]

(***************************************************************************)
(* The now-playing script (src/scripts/update-now-playing.mjs)             *)
(*                                                                         *)
(* A JSON object is the sequence of its <<key, value>> members in          *)
(* insertion order; member values are kept as their JSON text.              *)
(***************************************************************************)
\* number of runs of the script in one behaviour
MaxRuns == 3

NpNull == [t |-> "null", pairs |-> <<>>]
NpNumber == [t |-> "number", pairs |-> <<>>]
NpObj(pairs) == [t |-> "object", pairs |-> pairs]

\* the output file: absent, text that is not JSON, or the text of a value
NoFile == [kind |-> "absent", value |-> NpNull]
GarbageFile == [kind |-> "garbage", value |-> NpNull]
JsonFile(v) == [kind |-> "json", value |-> v]

\* fs.readFile and JSON.parse, null when either throws; the text written by
\* JSON.stringify(payload, null, 2) parses back to the payload, members in
\* the order written
readExistingPayload(file) == IF file.kind = "json" THEN file.value ELSE NpNull

\* a comparablePayload that keeps updatedAt
KeepUpdatedAt(p) == p

\* a shallow copy without updatedAt; a value that is no object is returned
\* as it is
comparablePayload(p) ==
    IF p.t # "object" THEN p
    ELSE NpObj(SelectSeq(p.pairs, LAMBDA m : m[1] # "updatedAt"))

RECURSIVE NpMembersText(_)
NpMembersText(pairs) ==
    IF pairs = <<>> THEN <<>>
    ELSE <<pairs[1][1], ":", pairs[1][2]>>
         \o (IF Len(pairs) > 1 THEN <<",">> ELSE <<>>)
         \o NpMembersText(Tail(pairs))

\* JSON.stringify, as the sequence of the tokens of its text
NpStringify(v) ==
    CASE v.t = "object" -> <<"{">> \o NpMembersText(v.pairs) \o <<"}">>
      [] v.t = "number" -> <<"5">>
      [] OTHER -> <<"null">>

hasMeaningfulChange(previous, next) ==
    NpStringify(comparablePayload(previous)) # NpStringify(comparablePayload(next))

\* existing?.track ?? null
ExistingTrack(existing) ==
    IF existing.t = "object" /\ \E n \in 1..Len(existing.pairs) : existing.pairs[n][1] = "track"
    THEN existing.pairs[CHOOSE n \in 1..Len(existing.pairs) : existing.pairs[n][1] = "track"][2]
    ELSE "null"

\* what getListeningPayload finds: a track that is playing or paused, the
\* track played last, nothing, or a failure with its message
ListeningOutcomes ==
    [ok : {TRUE}, isPlaying : {"true", "false"}, source : {"\"currently-playing\""},
     track : {"trackA", "trackB"}, error : {""}]
    \cup [ok : {TRUE}, isPlaying : {"false"}, source : {"\"recently-played\""},
           track : {"trackA", "trackB"}, error : {""}]
    \cup [ok : {TRUE}, isPlaying : {"false"}, source : {"\"none\""}, track : {"null"}, error : {""}]
    \cup [ok : {FALSE}, isPlaying : {"false"}, source : {"\"error\""}, track : {"null"},
           error : {"\"Token request failed: 400\"", "\"Spotify API request failed: 500\""}]

\* the payload main builds from the outcome of getListeningPayload
BuildPayload(outcome, existing, stamp) ==
    IF outcome.ok
    THEN NpObj(<< <<"updatedAt", stamp>>, <<"isPlaying", outcome.isPlaying>>,
                  <<"source", outcome.source>>, <<"track", outcome.track>> >>)
    ELSE NpObj(<< <<"updatedAt", stamp>>, <<"isPlaying", "false">>,
                  <<"source", "\"error\"">>, <<"track", ExistingTrack(existing)>>,
                  <<"error", outcome.error>> >>)

\* contents the output file may have before the first run
InitialFiles == {NoFile, GarbageFile, JsonFile(NpNull), JsonFile(NpNumber), JsonFile(NpObj(<<>>))}

(***************************************************************************)
(* State                                                                   *)
(***************************************************************************)
VARIABLES
    secret,         \* env.APPROVAL_SIGNING_SECRET
    now,            \* the clock, in seconds; Date.now() is now * 1000
    ticks,          \* clock steps taken
    store,          \* env.RESUME_REQUESTS: key -> stored record
    usedIds,        \* ids crypto.randomUUID() has returned
    links,          \* tokens delivered to the approver by notification emails
    notifications,  \* notification emails delivered to the approver
    approvalsSent,  \* id -> approval emails delivered to that request's requester
    putFailures,    \* store writes that have failed
    req,            \* the request handled last
    payload,        \* what verifyToken gave the request handled last
    resp,           \* the response to the request handled last
    effects,        \* store, object-storage and email calls of the request handled last
    inflight,       \* decision handlers suspended at an await, by slot
    raceFetched,    \* ids whose attachment an interleaved handler has fetched
    npFile,         \* content of data/spotify-now-playing.json
    npRuns,         \* runs of the now-playing script so far
    npLast          \* what the last run of the now-playing script read, built and did

raceVars == <<inflight, raceFetched>>
scriptVars == <<npFile, npRuns, npLast>>

vars == <<secret, now, ticks, store, usedIds, links, notifications, approvalsSent,
          putFailures, req, payload, resp, effects, inflight, raceFetched,
          npFile, npRuns, npLast>>

requestKey(id) == <<114,101,115,117,109,101,95,114,101,113,117,101,115,116,58>> \o id

NoReq == [kind |-> "none", token |-> <<>>, body |-> Body(Undef, Undef, Undef, Undef)]
NotCalled == [throw |-> FALSE, val |-> [t |-> "uncalled", s |-> <<>>, n |-> 0]]
Resp(status, msg, arg) == [status |-> status, msg |-> msg, arg |-> arg]
Eff(op, ok) == [op |-> op, ok |-> ok]

\* a store that keeps returning a value after its expirationTtl
GetIgnoringTtl(st, rkey, t) == rkey \in DOMAIN st

\* env.RESUME_REQUESTS.get finds a value: the key was written and its
\* expirationTtl has not elapsed
Get(st, rkey, t) == rkey \in DOMAIN st /\ t < st[rkey].expiresAt

\* env.RESUME_REQUESTS.put with expirationTtl
Put(st, rkey, record, t) ==
    [k \in DOMAIN st \cup {rkey} |->
        IF k = rkey THEN [record EXCEPT !.expiresAt = t + RECORD_TTL] ELSE st[k]]

\* handler slots of the interleaved machine
Slots == {1, 2}
Idle == [pc |-> "idle", token |-> <<>>, verified |-> NotCalled, record |-> <<>>]

\* no decision handler is in flight
RaceIdle ==
    /\ inflight = [h \in Slots |-> Idle]
    /\ raceFetched = {}

NoRun == [existing |-> NpNull, payload |-> NpObj(<<>>), wrote |-> FALSE]

\* the now-playing script has not run and there is no output file
ScriptIdle ==
    /\ npFile = NoFile
    /\ npRuns = 0
    /\ npLast = NoRun

\* the worker of a deployment whose secret is one of secs, before any request
WorkerInit(secs) ==
    /\ secret \in secs
    /\ now = 0
    /\ ticks = 0
    /\ store = <<>>
    /\ usedIds = {}
    /\ links = {}
    /\ notifications = 0
    /\ approvalsSent = [i \in Ids |-> 0]
    /\ putFailures = 0
    /\ req = NoReq
    /\ payload = NotCalled
    /\ resp = Resp(0, "", "")
    /\ effects = <<>>

\* the state of a deployment whose secret is one of secs, before any request
InitWith(secs) ==
    /\ WorkerInit(secs)
    /\ RaceIdle
    /\ ScriptIdle

Init == InitWith({<<115,49>>})

\* time passes
Tick ==
    /\ ticks < MaxTicks
    /\ ticks' = ticks + 1
    /\ now' = now + TickStep(ticks)
    /\ UNCHANGED <<secret, store, usedIds, links, notifications, approvalsSent, putFailures,
                   req, payload, resp, effects, raceVars, scriptVars>>

\* the downstream call of a handler run that fails, if one does: the store
\* write, the attachment fetch or the email send
Failures == {"none", "put", "fetch", "send"}

\* the chosen call fails exactly when the handler reaches it
Hit(fail, effs) ==
    IF fail = "none" THEN \A i \in 1..Len(effs) : effs[i].ok
    ELSE effs # <<>> /\ ~effs[Len(effs)].ok

(***************************************************************************)
(* POST /api/resume-request                                                *)
(***************************************************************************)
\* outcome of one intake: validation, record, store write, tokens, email
IntakeOutcome(body, id, sec, st, t, fail) ==
    LET name == clean(body.name)
        email == clean(body.email)
        company == clean(body.company)
        reason == clean(body.reason)
        record == [id |-> id, status |-> PENDING, createdAt |-> t, decidedAt |-> -1,
                   requester |-> [name |-> name, email |-> email,
                                  company |-> company, reason |-> reason],
                   expiresAt |-> 0]
        exp == expiresInHours(TOKEN_HOURS, t)
        approveToken == SignTable[Obj(Str(id), Str(APPROVE), Num(exp)), sec]
        denyToken == SignTable[Obj(Str(id), Str(DENY), Num(exp)), sec]
        out(pr, pe, ps, pu, pl) ==
            [resp |-> pr, effects |-> pe, store |-> ps, used |-> pu, links |-> pl]
    IN IF body \in BrokenBodies
       THEN out(Resp(500, "Error", "body"), <<>>, st, {}, {})
       ELSE IF name = <<>> \/ email = <<>> \/ company = <<>> \/ reason = <<>>
       THEN out(Resp(400, "All fields are required.", ""), <<>>, st, {}, {})
       ELSE IF ~isEmail(email)
       THEN out(Resp(400, "Invalid email address.", ""), <<>>, st, {}, {})
       ELSE IF fail = "put"
       THEN out(Resp(500, "Error", "put"), <<Eff("put", FALSE)>>, st, {id}, {})
       ELSE IF fail = "send"
       THEN out(Resp(500, "Error", "send"), <<Eff("put", TRUE), Eff("send", FALSE)>>,
                Put(st, requestKey(id), record, t), {id}, {})
       ELSE out(Resp(200, "ok", ""), <<Eff("put", TRUE), Eff("send", TRUE)>>,
                Put(st, requestKey(id), record, t), {id}, {approveToken, denyToken})

handleResumeRequest(body, id, fail) ==
    \E o \in {IntakeOutcome(body, id, secret, store, now, fail)} :
    /\ Hit(fail, o.effects)
    /\ putFailures' = putFailures + (IF \E i \in 1..Len(o.effects) : o.effects[i] = Eff("put", FALSE) THEN 1 ELSE 0)
    /\ putFailures' <= MaxPutFailures
    /\ req' = [kind |-> "intake", token |-> <<>>, body |-> body]
    /\ payload' = NotCalled
    /\ resp' = o.resp
    /\ effects' = o.effects
    /\ store' = o.store
    /\ usedIds' = usedIds \cup o.used
    /\ links' = links \cup o.links
    /\ notifications' = notifications + Cardinality(o.links) \div 2
    /\ UNCHANGED <<secret, now, ticks, approvalsSent, raceVars, scriptVars>>

(***************************************************************************)
(* GET /api/resume-decision                                                *)
(***************************************************************************)
\* a handler for which no link ever expires
NeverExpired(exp, t) == FALSE

\* Date.now() > payload.exp * 1000; a comparison with NaN is false
Expired(exp, t) == LET e == ToNumber(exp) IN ~e.nan /\ t > e.n

\* `${id}` inside requestKey
IdText(v) == IF v.t = "number" THEN Digits(v.n) ELSE v.s

\* !payload || !payload.id || !payload.action
PayloadRejected(p) == ~Truthy(p) \/ ~Truthy(Prop(p, "id")) \/ ~Truthy(Prop(p, "action"))

\* a handler that takes every record for pending
NeverDecided(record) == FALSE

\* record.status !== "pending"
AlreadyDecided(record) == record.status # PENDING

\* payload.action === "deny"
IsDeny(p) == Prop(p, "action") = Str(DENY)

Outcome(pv, pr, pe, ps, pm) ==
    [payload |-> pv, resp |-> pr, effects |-> pe, store |-> ps, sent |-> pm]

\* a deny branch that fetches the attachment and emails the requester
\* before it writes
DenyWithEmail(verified, record, st, t, fail) ==
    Outcome(verified, Resp(200, "Request denied. No email sent to requester.", ""),
            <<Eff("get", TRUE), Eff("fetch", TRUE), Eff("send", TRUE), Eff("put", TRUE)>>,
            Put(st, requestKey(record.id),
                [record EXCEPT !.status = DENIED, !.decidedAt = t], t), TRUE)

\* the deny branch: one store write
DenyOutcome(verified, record, st, t, fail) ==
    IF fail = "put"
    THEN Outcome(verified, Resp(500, "Error", "put"),
                 <<Eff("get", TRUE), Eff("put", FALSE)>>, st, FALSE)
    ELSE Outcome(verified, Resp(200, "Request denied. No email sent to requester.", ""),
                 <<Eff("get", TRUE), Eff("put", TRUE)>>,
                 Put(st, requestKey(record.id),
                     [record EXCEPT !.status = DENIED, !.decidedAt = t], t), FALSE)

\* an approve branch that sends the email and leaves the record as it was
ApproveWithoutWrite(verified, record, st, t, fail) ==
    IF fail = "fetch"
    THEN Outcome(verified, Resp(500, "Error", "fetch"),
                 <<Eff("get", TRUE), Eff("fetch", FALSE)>>, st, FALSE)
    ELSE IF fail = "send"
    THEN Outcome(verified, Resp(500, "Error", "send"),
                 <<Eff("get", TRUE), Eff("fetch", TRUE), Eff("send", FALSE)>>, st, FALSE)
    ELSE Outcome(verified, Resp(200, "Approved. Resume sent to", record.requester.email),
                 <<Eff("get", TRUE), Eff("fetch", TRUE), Eff("send", TRUE)>>, st, TRUE)

\* an approve branch that writes the approved status before it fetches and sends
ApproveWriteFirst(verified, record, st, t, fail) ==
    LET written == Put(st, requestKey(record.id),
                       [record EXCEPT !.status = APPROVED, !.decidedAt = t], t)
    IN IF fail = "put"
       THEN Outcome(verified, Resp(500, "Error", "put"),
                    <<Eff("get", TRUE), Eff("put", FALSE)>>, st, FALSE)
       ELSE IF fail = "fetch"
       THEN Outcome(verified, Resp(500, "Error", "fetch"),
                    <<Eff("get", TRUE), Eff("put", TRUE), Eff("fetch", FALSE)>>, written, FALSE)
       ELSE IF fail = "send"
       THEN Outcome(verified, Resp(500, "Error", "send"),
                    <<Eff("get", TRUE), Eff("put", TRUE), Eff("fetch", TRUE), Eff("send", FALSE)>>,
                    written, FALSE)
       ELSE Outcome(verified, Resp(200, "Approved. Resume sent to", record.requester.email),
                    <<Eff("get", TRUE), Eff("put", TRUE), Eff("fetch", TRUE), Eff("send", TRUE)>>,
                    written, TRUE)

\* the approve branch: attachment fetch, email send, then the store write
ApproveOutcome(verified, record, st, t, fail) ==
    IF fail = "fetch"
    THEN Outcome(verified, Resp(500, "Error", "fetch"),
                 <<Eff("get", TRUE), Eff("fetch", FALSE)>>, st, FALSE)
    ELSE IF fail = "send"
    THEN Outcome(verified, Resp(500, "Error", "send"),
                 <<Eff("get", TRUE), Eff("fetch", TRUE), Eff("send", FALSE)>>, st, FALSE)
    ELSE IF fail = "put"
    THEN Outcome(verified, Resp(500, "Error", "put"),
                 <<Eff("get", TRUE), Eff("fetch", TRUE), Eff("send", TRUE), Eff("put", FALSE)>>,
                 st, TRUE)
    ELSE Outcome(verified, Resp(200, "Approved. Resume sent to", record.requester.email),
                 <<Eff("get", TRUE), Eff("fetch", TRUE), Eff("send", TRUE), Eff("put", TRUE)>>,
                 Put(st, requestKey(record.id),
                     [record EXCEPT !.status = APPROVED, !.decidedAt = t], t), TRUE)

\* outcome of one decision request: response, the calls made in order, the
\* store afterwards and whether an approval email went out
DecisionOutcome(token, sec, st, t, fail) ==
    IF token = <<>>
    THEN Outcome(NotCalled, Resp(400, "Invalid link.", ""), <<>>, st, FALSE)
    ELSE
    LET verified == VerifyTable[token, sec] IN
    IF verified.throw
    THEN Outcome(verified, Resp(500, "Error", "verifyToken"), <<>>, st, FALSE)
    ELSE IF PayloadRejected(verified.val)
    THEN Outcome(verified, Resp(400, "Invalid or expired link.", ""), <<>>, st, FALSE)
    ELSE IF Expired(Prop(verified.val, "exp"), t)
    THEN Outcome(verified, Resp(400, "This decision link has expired.", ""), <<>>, st, FALSE)
    ELSE
    LET rkey == requestKey(IdText(Prop(verified.val, "id"))) IN
    IF ~Get(st, rkey, t)
    THEN Outcome(verified, Resp(404, "Request not found.", ""), <<Eff("get", TRUE)>>, st, FALSE)
    ELSE IF AlreadyDecided(st[rkey])
    THEN Outcome(verified, Resp(200, "Request already", st[rkey].status),
                 <<Eff("get", TRUE)>>, st, FALSE)
    ELSE IF IsDeny(verified.val)
    THEN DenyOutcome(verified, st[rkey], st, t, fail)
    ELSE ApproveOutcome(verified, st[rkey], st, t, fail)

\* the id of the record a decision request read, if it read one
TargetId(o) == IdText(Prop(o.payload.val, "id"))

Min(a, b) == IF a < b THEN a ELSE b

handleResumeDecision(token, fail) ==
    \E o \in {DecisionOutcome(token, secret, store, now, fail)} :
    /\ Hit(fail, o.effects)
    /\ putFailures' = putFailures + (IF \E i \in 1..Len(o.effects) : o.effects[i] = Eff("put", FALSE) THEN 1 ELSE 0)
    /\ putFailures' <= MaxPutFailures
    /\ req' = [kind |-> "decision", token |-> token, body |-> NoReq.body]
    /\ payload' = o.payload
    /\ resp' = o.resp
    /\ effects' = o.effects
    /\ store' = o.store
    /\ approvalsSent' = IF o.sent
                        THEN [approvalsSent EXCEPT ![TargetId(o)] = Min(@ + 1, MaxSends)]
                        ELSE approvalsSent
    /\ UNCHANGED <<secret, now, ticks, usedIds, links, notifications, raceVars, scriptVars>>

\* a form submission; randomUUID returns an id it has not returned before
Intake ==
    \E body \in Bodies, id \in Ids \ usedIds, fail \in Failures :
        handleResumeRequest(body, id, fail)

\* a click on a link of a notification email, or a request with one of the
\* long-lived tokens
Decide ==
    \E token \in links \cup LongTable[secret], fail \in Failures :
        handleResumeDecision(token, fail)

Next == Tick \/ Intake \/ Decide

\* the request lifecycle: any number of requests, one worker secret
Spec == Init /\ [][Next]_vars

\* a form submission that is given the first id
IntakeFirst ==
    \E body \in Bodies, fail \in Failures :
        /\ <<97>> \notin usedIds
        /\ handleResumeRequest(body, <<97>>, fail)

\* a decision request with a delivered token or any crafted token string
DecideAny ==
    \E token \in links \cup CraftedTable[secret], fail \in Failures :
        handleResumeDecision(token, fail)

TokenInit == InitWith(Secrets)

TokenNext == Tick \/ IntakeFirst \/ DecideAny

\* one request under every secret, with every token string of the model
TokenSpec == TokenInit /\ [][TokenNext]_vars

(***************************************************************************)
(* GET /api/resume-decision, one await at a time                           *)
(*                                                                         *)
(* A handler that finds its record pending is suspended at the awaits of   *)
(* the attachment fetch, the email send and the store write; handlers in   *)
(* other slots and intakes run in between.  The clock stands still: the    *)
(* awaits of one request take far less than a clock step.  A request that  *)
(* is refused, or that finds its record absent or decided, returns without *)
(* changing anything and is no step of this machine; responses are not     *)
(* kept.                                                                   *)
(***************************************************************************)
\* the handler in slot h returns
RaceFinish(h) ==
    /\ inflight' = [inflight EXCEPT ![h] = Idle]
    /\ UNCHANGED <<req, payload, resp, effects>>

\* the record a handler writes back: the one it read, with the status of its
\* action and decidedAt
Decided(h) ==
    [inflight[h].record EXCEPT
        !.status = IF IsDeny(inflight[h].verified.val) THEN DENIED ELSE APPROVED,
        !.decidedAt = now]

\* a handler that takes an approval straight to the store write
RaceBeginStraightToWrite(h, token) ==
    \E o \in {DecisionOutcome(token, secret, store, now, "none")} :
        /\ inflight[h].pc = "idle"
        /\ Len(o.effects) >= 2
        /\ inflight' = [inflight EXCEPT ![h] =
                            [pc |-> "put", token |-> token, verified |-> o.payload,
                             record |-> store[requestKey(TargetId(o))]]]
        /\ UNCHANGED <<secret, now, ticks, store, usedIds, links, notifications,
                       approvalsSent, putFailures, req, payload, resp, effects,
                       raceFetched, scriptVars>>

\* lines 112-135: the token checks, the store read and the status check of a
\* request that finds its record pending; it goes on to the deny write or to
\* the attachment fetch with the record it has read
RaceBegin(h, token) ==
    \E o \in {DecisionOutcome(token, secret, store, now, "none")} :
        /\ inflight[h].pc = "idle"
        /\ Len(o.effects) >= 2
        /\ inflight' = [inflight EXCEPT ![h] =
                            [pc |-> IF IsDeny(o.payload.val) THEN "put" ELSE "fetch",
                             token |-> token, verified |-> o.payload,
                             record |-> store[requestKey(TargetId(o))]]]
        /\ UNCHANGED <<secret, now, ticks, store, usedIds, links, notifications,
                       approvalsSent, putFailures, req, payload, resp, effects,
                       raceFetched, scriptVars>>

\* line 146: fetchResumeAttachmentFromR2 resolves or throws
RaceFetch(h, ok) ==
    /\ inflight[h].pc = "fetch"
    /\ IF ok
       THEN /\ inflight' = [inflight EXCEPT ![h].pc = "send"]
            /\ raceFetched' = raceFetched \cup {inflight[h].record.id}
            /\ UNCHANGED <<req, payload, resp, effects>>
       ELSE /\ RaceFinish(h)
            /\ UNCHANGED raceFetched
    /\ UNCHANGED <<secret, now, ticks, store, usedIds, links, notifications,
                   approvalsSent, putFailures, scriptVars>>

\* lines 148-160: sendEmail resolves or throws
RaceSend(h, ok) ==
    /\ inflight[h].pc = "send"
    /\ IF ok
       THEN /\ inflight' = [inflight EXCEPT ![h].pc = "put"]
            /\ approvalsSent' = [approvalsSent EXCEPT ![inflight[h].record.id] = Min(@ + 1, MaxSends)]
            /\ UNCHANGED <<req, payload, resp, effects>>
       ELSE /\ RaceFinish(h)
            /\ UNCHANGED approvalsSent
    /\ UNCHANGED <<secret, now, ticks, store, usedIds, links, notifications,
                   putFailures, raceFetched, scriptVars>>

\* a store write that is skipped when the stored status is no longer pending
RaceWriteIfPending(h, ok) ==
    /\ inflight[h].pc = "put"
    /\ RaceFinish(h)
    /\ store' = IF store[requestKey(inflight[h].record.id)].status # PENDING
                THEN store
                ELSE Put(store, requestKey(inflight[h].record.id), Decided(h), now)
    /\ UNCHANGED <<secret, now, ticks, usedIds, links, notifications,
                   approvalsSent, putFailures, raceFetched, scriptVars>>

\* lines 138-143 and 162-168: the record that was read is given its new
\* status and decidedAt and written back; the put resolves or throws
RaceWrite(h, ok) ==
    /\ inflight[h].pc = "put"
    /\ RaceFinish(h)
    /\ IF ok
       THEN /\ store' = Put(store, requestKey(inflight[h].record.id), Decided(h), now)
            /\ UNCHANGED putFailures
       ELSE /\ putFailures < MaxPutFailures
            /\ putFailures' = putFailures + 1
            /\ UNCHANGED store
    /\ UNCHANGED <<secret, now, ticks, usedIds, links, notifications,
                   approvalsSent, raceFetched, scriptVars>>

\* the body of Scenario A: Jo, jo@x.com, Acme, hiring
ScenarioBody ==
    Body(Str(<<74,111>>), Str(<<106,111,64,120,46,99,111,109>>),
         Str(<<65,99,109,101>>), Str(<<104,105,114,105,110,103>>))

\* a form submission that goes through
IntakeOk == \E id \in Ids \ usedIds : handleResumeRequest(ScenarioBody, id, "none")

Begin == \E h \in Slots, token \in links : RaceBegin(h, token)
Fetch == \E h \in Slots, ok \in BOOLEAN : RaceFetch(h, ok)
Send == \E h \in Slots, ok \in BOOLEAN : RaceSend(h, ok)
Write == \E h \in Slots, ok \in BOOLEAN : RaceWrite(h, ok)

RaceNext == IntakeOk \/ Begin \/ Fetch \/ Send \/ Write

\* decision requests whose awaits interleave
RaceSpec == Init /\ [][RaceNext]_vars

(***************************************************************************)
(* One run of the now-playing script                                       *)
(***************************************************************************)
\* main: read the existing payload, build the new one, write it unless the
\* existing one is truthy and equal to it apart from updatedAt
main ==
    \E outcome \in ListeningOutcomes :
        \E built \in {BuildPayload(outcome, readExistingPayload(npFile), ToString(npRuns + 1))} :
            /\ npRuns < MaxRuns
            /\ npRuns' = npRuns + 1
            /\ IF readExistingPayload(npFile).t # "null"
                  /\ ~hasMeaningfulChange(readExistingPayload(npFile), built)
               THEN /\ npFile' = npFile
                    /\ npLast' = [existing |-> readExistingPayload(npFile),
                                  payload |-> built, wrote |-> FALSE]
               ELSE /\ npFile' = JsonFile(built)
                    /\ npLast' = [existing |-> readExistingPayload(npFile),
                                  payload |-> built, wrote |-> TRUE]
            /\ UNCHANGED <<secret, now, ticks, store, usedIds, links, notifications,
                           approvalsSent, putFailures, req, payload, resp, effects, raceVars>>

NowPlayingInit ==
    /\ WorkerInit({<<115,49>>})
    /\ RaceIdle
    /\ npFile \in InitialFiles
    /\ npRuns = 0
    /\ npLast = NoRun

NowPlayingNext == main

\* the scheduled runs of the script over one output file
NowPlayingSpec == NowPlayingInit /\ [][NowPlayingNext]_vars

(***************************************************************************)
(* Properties                                                              *)
(***************************************************************************)
IsDecision == req.kind = "decision"

\* the request handled last carried a token whose tag matched and whose
\* claims passed the handler's checks of id and action
Accepted == IsDecision /\ ~payload.throw /\ payload.val.t = "object" /\ ~PayloadRejected(payload.val)

\* the call op occurs among the calls of the request handled last
Called(effs, op) == \E i \in 1..Len(effs) : effs[i].op = op

\* the record under the id of the verified claims, as stored
TargetKey == requestKey(IdText(Prop(payload.val, "id")))

\* C1: for every request id, the stored status starts as pending and changes
\* at most once, to approved or to denied; once the stored status is not
\* pending, no later request changes the stored record.
C1_StatusChangesOnce ==
    [][\A i \in Ids :
          LET k == requestKey(i) IN
          /\ (k \notin DOMAIN store /\ k \in DOMAIN store') => store'[k].status = PENDING
          /\ k \in DOMAIN store =>
                /\ k \in DOMAIN store'
                /\ store'[k] # store[k] =>
                      /\ store[k].status = PENDING
                      /\ store'[k].status \in {APPROVED, DENIED}
                /\ (store[k].status # PENDING /\ req'.kind = "decision") => store'[k] = store[k]
      ]_vars

\* a deny link clicked on a record that is already approved
C1_Witness ==
    /\ Accepted
    /\ IsDeny(payload.val)
    /\ TargetKey \in DOMAIN store
    /\ store[TargetKey].status = APPROVED
    /\ resp = Resp(200, "Request already", APPROVED)

\* C2: while every store write succeeds, at most one approval email is sent
\* for one request id; a decision request with a valid approve token on a
\* record that is already approved sends no email, leaves the record as it
\* is and reports that the request is already approved.
C2_AtMostOneApprovalEmail ==
    /\ [](\A i \in Ids : putFailures = 0 => approvalsSent[i] <= 1)
    /\ [][\A i \in Ids :
             ( /\ req'.kind = "decision"
               /\ req'.token \in links
               /\ VerifyTable[req'.token, secret] = Return(Obj(Str(i), Str(APPROVE),
                                                         Prop(VerifyTable[req'.token, secret].val, "exp")))
               /\ ~Expired(Prop(VerifyTable[req'.token, secret].val, "exp"), now')
               /\ Get(store, requestKey(i), now')
               /\ store[requestKey(i)].status = APPROVED
               /\ <<req, resp, effects>> # <<req', resp', effects'>> )
             => /\ resp' = Resp(200, "Request already", APPROVED)
                /\ ~Called(effects', "send")
                /\ approvalsSent' = approvalsSent
                /\ store' = store
         ]_vars

\* the approve link clicked again after the approval went through
C2_Witness ==
    /\ Accepted
    /\ req.token \in links
    /\ Prop(payload.val, "action") = Str(APPROVE)
    /\ resp = Resp(200, "Request already", APPROVED)
    /\ approvalsSent[IdText(Prop(payload.val, "id"))] = 1
    /\ putFailures = 0

\* C3: when the attachment fetch or the email send of an approval fails, the
\* handler responds 500, writes nothing to the store and the record stays
\* pending; after a failed fetch no email has been sent; and the same link,
\* while it is unexpired, still completes the approval when clicked again.
C3_FailedApprovalStaysPending ==
    /\ [][\A fail \in {"fetch", "send"} :
             handleResumeDecision(req'.token, fail)
             => /\ resp'.status = 500
                /\ store' = store
                /\ ~Called(effects', "put")
                /\ approvalsSent' = approvalsSent
                /\ store'[requestKey(IdText(Prop(payload'.val, "id")))].status = PENDING
                /\ fail = "fetch" => ~Called(effects', "send")
         ]_vars
    /\ []( ( /\ IsDecision
             /\ req.token \in links
             /\ resp.status = 500
             /\ resp.arg \in {"fetch", "send"}
             /\ ~Expired(Prop(payload.val, "exp"), now) )
           => LET o == DecisionOutcome(req.token, secret, store, now, "none") IN
              /\ o.resp.status = 200
              /\ o.sent
              /\ o.store[TargetKey].status = APPROVED )

\* an approval whose attachment fetch failed
C3_Witness ==
    /\ Accepted
    /\ req.token \in links
    /\ resp = Resp(500, "Error", "fetch")
    /\ effects = <<Eff("get", TRUE), Eff("fetch", FALSE)>>
    /\ store[TargetKey].status = PENDING

\* this step handles a decision request
DecisionStep == \E fail \in Failures : handleResumeDecision(req'.token, fail)

\* the token of this step carries a matching tag and claims with id and action
AcceptedStep ==
    /\ DecisionStep
    /\ ~payload'.throw
    /\ payload'.val.t = "object"
    /\ ~PayloadRejected(payload'.val)

StepExp == Prop(payload'.val, "exp")
StepKey == requestKey(IdText(Prop(payload'.val, "id")))

\* the store holds a record under key k whose retention window has not elapsed
Readable(k) == k \in DOMAIN store /\ now < store[k].expiresAt

\* e is an instant earlier than the current time
PastExp(e) == e.t = "number" /\ now > e.n

\* this step made no store write, no attachment fetch and no email send and
\* left the store and the email counts as they were
NoSideEffect ==
    /\ ~Called(effects', "put")
    /\ ~Called(effects', "fetch")
    /\ ~Called(effects', "send")
    /\ store' = store
    /\ approvalsSent' = approvalsSent
    /\ notifications' = notifications

\* C4: a decision request whose correctly signed token carries an id, an
\* action and an exp earlier than the current time is answered 400 "link has
\* expired" whatever the action and whatever the state of the record, with no
\* store read or write, no attachment fetch and no email, the record unchanged.
C4_ExpiredLinkRejected ==
    [][( /\ AcceptedStep
         /\ PastExp(StepExp) )
       => /\ resp' = Resp(400, "This decision link has expired.", "")
          /\ effects' = <<>>
          /\ NoSideEffect
      ]_vars

\* an expired approve link clicked while its record is readable and approved
C4_Witness ==
    /\ Accepted
    /\ resp = Resp(400, "This decision link has expired.", "")
    /\ Readable(TargetKey)
    /\ store[TargetKey].status = APPROVED

\* C5 as stated: a decision request with a correctly signed token for a record
\* that is already approved or denied ends with 200 and the existing status,
\* whether or not the token's exp has passed.
C5_AsStated ==
    [][( /\ AcceptedStep
         /\ Readable(StepKey)
         /\ store[StepKey].status # PENDING )
       => /\ resp' = Resp(200, "Request already", store[StepKey].status)
          /\ NoSideEffect
      ]_vars

\* C5: a decision request with a correctly signed token for a record that is
\* already approved or denied makes no change, no attachment fetch and sends
\* no email; it ends with 200 and the existing status when the token's exp has
\* not passed, and with 400 "link has expired" when it has.
C5_DecidedRecordReplay ==
    [][( /\ AcceptedStep
         /\ Readable(StepKey)
         /\ store[StepKey].status # PENDING )
       => /\ NoSideEffect
          /\ IF PastExp(StepExp)
             THEN resp' = Resp(400, "This decision link has expired.", "")
             ELSE resp' = Resp(200, "Request already", store[StepKey].status)
      ]_vars

\* an approve link clicked on a record that is denied
C5_Witness ==
    /\ Accepted
    /\ Prop(payload.val, "action") = Str(APPROVE)
    /\ Readable(TargetKey)
    /\ store[TargetKey].status = DENIED
    /\ resp = Resp(200, "Request already", DENIED)

\* C6 as stated: a decision request with a correctly signed token whose id
\* has no record ends with 404 "not found", whether or not the token's exp
\* has passed.
C6_AsStated ==
    [][( /\ AcceptedStep
         /\ ~Readable(StepKey) )
       => /\ resp' = Resp(404, "Request not found.", "")
          /\ NoSideEffect
      ]_vars

\* C6: a decision request with a correctly signed token whose id has no
\* record (never created, or removed by the TTL) makes no change; it ends
\* with 404 "not found" when the token's exp has not passed, and with 400
\* "link has expired" when it has.
C6_AbsentRecord ==
    [][( /\ AcceptedStep
         /\ ~Readable(StepKey) )
       => /\ NoSideEffect
          /\ IF PastExp(StepExp)
             THEN resp' = Resp(400, "This decision link has expired.", "")
             ELSE resp' = Resp(404, "Request not found.", "")
      ]_vars

\* a long-lived link clicked after the TTL of its record has elapsed
C6_Witness ==
    /\ Accepted
    /\ resp = Resp(404, "Request not found.", "")
    /\ TargetKey \in DOMAIN store
    /\ now >= store[TargetKey].expiresAt

\* C7 as stated: for every token string that fails decoding, verifyToken
\* returns invalid without raising and the decision handler answers 400, never
\* 500, with no store read or write and no email.
C7_AsStated ==
    (IsDecision /\ req.token \in UndecodableTable[secret])
    => /\ ~payload.throw
       /\ resp.status = 400
       /\ effects = <<>>

\* C8 as stated: a correctly signed token that lacks exp, whose exp is not a
\* number or whose action is neither approve nor deny is treated as invalid
\* (never answered with 200) and causes no record transition, no attachment
\* fetch and no email.
C8_AsStated ==
    (IsDecision /\ req.token \in IllFormedTable[secret])
    => /\ resp.status # 200
       /\ ~Called(effects, "put")
       /\ ~Called(effects, "fetch")
       /\ ~Called(effects, "send")

\* C9: verifyToken returns claims only if the tag of the token is the HMAC of
\* its claims bytes under the verifying secret; a token signed with another
\* secret is invalid, and so is a token whose claims segment was changed
\* after signing while the tag was kept.
C9_TagMustMatch ==
    /\ (IsDecision /\ req.token # <<>> /\ ~payload.throw /\ payload.val # Null)
       => LET parts == Split(req.token, DOT) IN
          /\ Len(parts) = 2
          /\ base64UrlDecode(parts[2]).val
                = hmacSha256(base64UrlDecode(parts[1]).val, toUtf8(secret))
    /\ (IsDecision /\ req.token \in {SignTable[c, OtherSecret(secret)] : c \in ClaimsDomain})
       => payload = Return(Null)
    /\ (IsDecision /\ req.token = TamperedToken(secret))
       => payload = Return(Null)

\* a token whose claims segment was swapped under a kept tag, refused
C9_Witness ==
    /\ IsDecision
    /\ req.token = TamperedToken(secret)
    /\ resp = Resp(400, "Invalid or expired link.", "")

\* C10: for all claims {id, action, exp} with a string id, an action of
\* approve or deny and a numeric exp, and every secret S,
\* verifyToken(signToken(C, S), S) returns claims equal to C.
C10_SignVerifyRoundTrip ==
    \A c \in MintClaims \cup LongClaims :
        (IsDecision /\ req.token = SignTable[c, secret]) => payload = Return(c)

\* a link minted under the second secret at time 0, verified by a click
C10_Witness ==
    /\ IsDecision
    /\ secret = <<115,50>>
    /\ req.token \in links
    /\ payload = Return(Obj(Str(<<97>>), Str(DENY), Num(TokenLife)))

\* this step handles an intake request
IntakeStep == \E id \in Ids, fail \in Failures : handleResumeRequest(req'.body, id, fail)

\* the request bodies whose four fields are non-empty after trimming and
\* whose email has the shape local@domain.tld
ValidBodies ==
    { Body(Str(<<74,111>>), Str(<<106,111,64,120,46,99,111,109>>),
           Str(<<65,99,109,101>>), Str(<<104,105,114,105,110,103>>)),
      Body(Str(<<32,74,111,32>>), Str(<<106,111,64,120,46,99,111,109>>),
           Str(<<65,99,109,101>>), Str(<<104,105,114,105,110,103>>)) }

\* C11: an intake with four non-empty fields and a well-formed email, whose
\* store write and email send succeed, writes exactly one new record under a
\* fresh id with status pending, mints an approve and a deny token that carry
\* that id and an expiry 168 hours after the request, sends one notification
\* email with both links and no email to the requester, and responds 200 ok.
C11_IntakeSuccess ==
    [][( /\ IntakeStep
         /\ req'.body \in ValidBodies
         /\ \A n \in 1..Len(effects') : effects'[n].ok )
       => /\ resp' = Resp(200, "ok", "")
          /\ effects' = <<Eff("put", TRUE), Eff("send", TRUE)>>
          /\ notifications' = notifications + 1
          /\ approvalsSent' = approvalsSent
          /\ \E i \in Ids :
                /\ i \notin usedIds
                /\ requestKey(i) \notin DOMAIN store
                /\ DOMAIN store' = DOMAIN store \cup {requestKey(i)}
                /\ \A k \in DOMAIN store : store'[k] = store[k]
                /\ store'[requestKey(i)].id = i
                /\ store'[requestKey(i)].status = PENDING
                /\ store'[requestKey(i)].createdAt = now
                /\ store'[requestKey(i)].requester =
                      [name |-> <<74,111>>, email |-> <<106,111,64,120,46,99,111,109>>,
                       company |-> <<65,99,109,101>>, reason |-> <<104,105,114,105,110,103>>]
                /\ links \subseteq links'
                /\ Cardinality(links' \ links) = 2
                /\ { VerifyTable[tok, secret] : tok \in links' \ links }
                      = { Return(Obj(Str(i), Str(APPROVE), Num(now + 168 * 60 * 60))),
                          Return(Obj(Str(i), Str(DENY), Num(now + 168 * 60 * 60))) }
      ]_vars

\* a second intake, with a padded name, that went through
C11_Witness ==
    /\ req.kind = "intake"
    /\ req.body = Body(Str(<<32,74,111,32>>), Str(<<106,111,64,120,46,99,111,109>>),
                       Str(<<65,99,109,101>>), Str(<<104,105,114,105,110,103>>))
    /\ resp = Resp(200, "ok", "")
    /\ Cardinality(links) = 4
    /\ notifications = 2
    /\ \A i \in Ids : requestKey(i) \in DOMAIN store /\ store[requestKey(i)].status = PENDING

\* C12 as stated: an intake request in which one of name, email, company or
\* reason is missing or empty after trimming, or whose email is not
\* well-formed, is answered 400 and writes no record, mints no token and
\* sends no email.
C12_AsStated ==
    [][( /\ IntakeStep
         /\ req'.body \notin ValidBodies )
       => /\ resp'.status = 400
          /\ effects' = <<>>
          /\ store' = store
          /\ links' = links
          /\ notifications' = notifications
      ]_vars

StepAction == Prop(payload'.val, "action")

\* this step found its record readable and pending under an unexpired token
PendingStep ==
    /\ AcceptedStep
    /\ ~PastExp(StepExp)
    /\ Readable(StepKey)
    /\ store[StepKey].status = PENDING

\* every key other than that of this step's record keeps its value
OthersKept ==
    /\ DOMAIN store' = DOMAIN store
    /\ \A k \in DOMAIN store : k # StepKey => store'[k] = store[k]

\* C13: a decision request with a valid, unexpired deny token on a pending
\* record, whose store write succeeds, sets status to denied and decidedAt to
\* the time of the request, persists the record, leaves id, createdAt and
\* requester as they were, fetches no attachment, sends no email and
\* responds 200.
C13_DenyFrame ==
    [][( /\ PendingStep
         /\ StepAction = Str(DENY)
         /\ \A n \in 1..Len(effects') : effects'[n].ok )
       => /\ resp' = Resp(200, "Request denied. No email sent to requester.", "")
          /\ effects' = <<Eff("get", TRUE), Eff("put", TRUE)>>
          /\ OthersKept
          /\ store'[StepKey].status = DENIED
          /\ store'[StepKey].decidedAt = now
          /\ store'[StepKey].id = store[StepKey].id
          /\ store'[StepKey].createdAt = store[StepKey].createdAt
          /\ store'[StepKey].requester = store[StepKey].requester
          /\ approvalsSent' = approvalsSent
          /\ notifications' = notifications
      ]_vars

\* a deny link clicked a token lifetime after the intake, on a pending record
C13_Witness ==
    /\ Accepted
    /\ IsDeny(payload.val)
    /\ resp = Resp(200, "Request denied. No email sent to requester.", "")
    /\ store[TargetKey].status = DENIED
    /\ store[TargetKey].decidedAt = TokenLife
    /\ store[TargetKey].createdAt = 0
    /\ approvalsSent[store[TargetKey].id] = 0

\* the calls of an approval, in order, up to the first one that fails
ApprovalRuns ==
    { <<Eff("get", TRUE), Eff("fetch", FALSE)>>,
      <<Eff("get", TRUE), Eff("fetch", TRUE), Eff("send", FALSE)>>,
      <<Eff("get", TRUE), Eff("fetch", TRUE), Eff("send", TRUE), Eff("put", FALSE)>>,
      <<Eff("get", TRUE), Eff("fetch", TRUE), Eff("send", TRUE), Eff("put", TRUE)>> }

\* C14: a decision request with a valid, unexpired approve token on a pending
\* record makes, in this order, one attachment fetch, one email send and one
\* store write, each only after the one before it has succeeded; the record
\* is stored as approved, with decidedAt set, exactly when all three
\* succeeded, and is otherwise left as it was.
C14_ApproveOrder ==
    [][( /\ PendingStep
         /\ StepAction = Str(APPROVE) )
       => /\ effects' \in ApprovalRuns
          /\ OthersKept
          /\ IF effects'[Len(effects')] = Eff("put", TRUE)
             THEN /\ resp'.status = 200
                  /\ store'[StepKey] = [store[StepKey] EXCEPT !.status = APPROVED,
                                                              !.decidedAt = now,
                                                              !.expiresAt = now + RECORD_TTL]
             ELSE /\ resp'.status = 500
                  /\ store' = store
          /\ approvalsSent'[store[StepKey].id] > approvalsSent[store[StepKey].id]
                => Eff("send", TRUE) \in {effects'[n] : n \in 1..Len(effects')}
          /\ Eff("send", TRUE) \notin {effects'[n] : n \in 1..Len(effects')}
                => approvalsSent' = approvalsSent
      ]_vars

\* an approval that went through: fetch, send, write
C14_Witness ==
    /\ Accepted
    /\ Prop(payload.val, "action") = Str(APPROVE)
    /\ resp.status = 200
    /\ effects = <<Eff("get", TRUE), Eff("fetch", TRUE), Eff("send", TRUE), Eff("put", TRUE)>>
    /\ store[TargetKey].status = APPROVED
    /\ store[TargetKey].decidedAt = now

\* this step's token is absent, fails decoding or the tag comparison, or
\* carries an exp that has passed
TokenFailureStep ==
    /\ DecisionStep
    /\ \/ req'.token = <<>>
       \/ req'.token \in UndecodableTable[secret]
       \/ AcceptedStep /\ PastExp(StepExp)

\* C15 as stated: every token failure on the decision endpoint (absent,
\* malformed, forged or expired token) gets the same response, the generic
\* "invalid or expired link", so that status and message do not tell which
\* check failed.
C15_AsStated ==
    [][TokenFailureStep => resp' = Resp(400, "Invalid or expired link.", "")]_vars

\* C16 as stated: no record is readable once 30 days have elapsed since its
\* creation, whatever its status and whatever decision requests were handled
\* in between.
C16_AsStated ==
    \A k \in DOMAIN store : Readable(k) => now < store[k].createdAt + 60 * 60 * 24 * 30

\* this step is a run of the now-playing script
ScriptStep == npRuns' = npRuns + 1

\* the members of a JSON object other than updatedAt
OtherMembers(v) == { v.pairs[n] : n \in { m \in 1..Len(v.pairs) : v.pairs[m][1] # "updatedAt" } }

\* the file holds a payload before this step
HasExisting == npFile.kind = "json" /\ npFile.value.t # "null"

\* the payload built in this step differs from the one in the file in a
\* member other than updatedAt
DiffersBesidesUpdatedAt ==
    \/ npFile.value.t # "object"
    \/ OtherMembers(npFile.value) # OtherMembers(npLast'.payload)

\* C17: a run of the now-playing script writes the output file if and only
\* if there is no readable existing payload or the payload it built (the error
\* payload included) differs from the existing one in a member other than
\* updatedAt; when the two are equal apart from updatedAt the file is left
\* as it was.
C17_WriteIffMeaningfulChange ==
    [][ScriptStep
       => /\ npLast'.wrote <=> (~HasExisting \/ DiffersBesidesUpdatedAt)
          /\ npLast'.wrote => npFile' = JsonFile(npLast'.payload)
          /\ ~npLast'.wrote => npFile' = npFile
      ]_vars

\* a failed refresh repeated: the second error payload differs from the file
\* only in updatedAt, and the file keeps the first one
C17_Witness ==
    /\ npRuns = 3
    /\ ~npLast.wrote
    /\ npLast.payload.pairs[3] = <<"source", "\"error\"">>
    /\ npLast.payload.pairs[4] = <<"track", "trackA">>
    /\ npLast.payload.pairs[1] = <<"updatedAt", "3">>
    /\ npFile.value.pairs[1] = <<"updatedAt", "2">>

\* the handler in slot h completes its store write in this step
WroteStep(h) ==
    /\ inflight[h].pc = "put"
    /\ inflight'[h].pc = "idle"
    /\ putFailures' = putFailures

\* the handler in slot h completes its email send in this step
SentStep(h) ==
    /\ inflight[h].pc = "send"
    /\ inflight'[h].pc = "put"

\* the key of the record the handler in slot h has read
SlotKey(h) == requestKey(inflight[h].record.id)

\* C18: decision handlers for one request id whose store reads and writes
\* interleave can both read status pending and both perform the transition.
\* Every suspended handler holds a record it read as pending, whatever the
\* store holds by now; its email send counts and its store write puts its own
\* status whatever status is stored at that moment, so two approvals send two
\* approval emails for one request and an approve and a deny write the stored
\* status twice, the later write replacing the earlier terminal status.
C18_BothTransition ==
    /\ [](\A h \in Slots : inflight[h].pc # "idle" => inflight[h].record.status = PENDING)
    /\ [][\A h \in Slots :
            /\ SentStep(h)
               => approvalsSent'[inflight[h].record.id]
                      = Min(approvalsSent[inflight[h].record.id] + 1, MaxSends)
            /\ WroteStep(h)
               => /\ store'[SlotKey(h)].status
                        = (IF IsDeny(inflight[h].verified.val) THEN DENIED ELSE APPROVED)
                  /\ store'[SlotKey(h)].decidedAt = now
         ]_vars

\* with no store write having failed and no handler suspended: two approval
\* emails went out for request a, and for request b an approval email went
\* out and the stored status is denied, the deny write having replaced approved
C18_Witness ==
    /\ \A h \in Slots : inflight[h].pc = "idle"
    /\ putFailures = 0
    /\ approvalsSent[<<97>>] = 2
    /\ store[requestKey(<<97>>)].status = APPROVED
    /\ approvalsSent[<<98>>] = 1
    /\ store[requestKey(<<98>>)].status = DENIED

\* the calls of an approval whose email went out and whose store write failed
SentThenPutFailed ==
    <<Eff("get", TRUE), Eff("fetch", TRUE), Eff("send", TRUE), Eff("put", FALSE)>>

\* token verifies to an approve decision for the record under key k, has not
\* expired, and the record under k is readable and pending
ApproveLinkOpen(token, k) ==
    \E v \in {VerifyTable[token, secret]} :
        /\ ~v.throw
        /\ v.val.t = "object"
        /\ ~PayloadRejected(v.val)
        /\ Prop(v.val, "action") = Str(APPROVE)
        /\ ~PastExp(Prop(v.val, "exp"))
        /\ k = requestKey(IdText(Prop(v.val, "id")))
        /\ Readable(k)
        /\ store[k].status = PENDING

\* C19: when, during an approval, the email send succeeds and the store write
\* that follows fails, the handler responds with an error, the email counts as
\* sent and the record is left pending; and whenever a record is still pending
\* after an approval email for it went out, a click of its unexpired approve
\* link fetches and sends again, so the request gets a duplicate email.
C19_DuplicateAfterFailedWrite ==
    /\ [][( /\ handleResumeDecision(req'.token, "put")
            /\ PendingStep
            /\ StepAction = Str(APPROVE) )
          => /\ effects' = SentThenPutFailed
             /\ resp' = Resp(500, "Error", "put")
             /\ store' = store
             /\ store'[StepKey].status = PENDING
             /\ approvalsSent'[IdText(Prop(payload'.val, "id"))]
                    = Min(approvalsSent[IdText(Prop(payload'.val, "id"))] + 1, MaxSends)
         ]_vars
    /\ [](\A i \in Ids, token \in links :
            ( /\ approvalsSent[i] >= 1
              /\ ApproveLinkOpen(token, requestKey(i)) )
            => \E o \in {DecisionOutcome(token, secret, store, now, "none")} :
                  /\ o.sent
                  /\ o.effects[3] = Eff("send", TRUE)
                  /\ o.resp.status = 200)

\* the second click of an approve link after a failed store write: two
\* approval emails have gone out for the one request, which is now approved
C19_Witness ==
    /\ putFailures = 1
    /\ IsDecision
    /\ effects = <<Eff("get", TRUE), Eff("fetch", TRUE), Eff("send", TRUE), Eff("put", TRUE)>>
    /\ approvalsSent[IdText(Prop(payload.val, "id"))] = 2
    /\ store[TargetKey].status = APPROVED

\* C20: in every state reached by decision handlers that interleave and whose
\* attachment fetches, email sends and store writes may fail, a request whose
\* stored status is approved has had an attachment fetch complete and an
\* approval email to its requester sent before.
C20_ApprovedImpliesSent ==
    \A i \in Ids :
        ( /\ requestKey(i) \in DOMAIN store
          /\ store[requestKey(i)].status = APPROVED )
        => /\ i \in raceFetched
           /\ approvalsSent[i] >= 1

\* request a is approved after one approval lost its store write and a second
\* one went through; request b had its attachment fetched and is still pending
C20_Witness ==
    /\ putFailures = 1
    /\ <<97>> \in raceFetched
    /\ store[requestKey(<<97>>)].status = APPROVED
    /\ approvalsSent[<<97>>] = 2
    /\ <<98>> \in raceFetched
    /\ approvalsSent[<<98>>] = 0
    /\ store[requestKey(<<98>>)].status = PENDING

\* C21: in every state, a request whose stored status is denied has had no
\* approval email sent to its requester, whatever the sequence of approve and
\* deny clicks for its id, store writes that fail after an email send and
\* handlers that interleave included.
C21_AsStated ==
    \A i \in Ids :
        ( /\ requestKey(i) \in DOMAIN store
          /\ store[requestKey(i)].status = DENIED )
        => approvalsSent[i] = 0

====
